---------------------------- MODULE Spec2Model ----------------------------
(***************************************************************************)
(* jetstream: an in-process publish/subscribe exchange (jetstream.py) with *)
(* its stream-socket transport (iostream.py).                              *)
(*                                                                         *)
(* Its specifications share this module:                                   *)
(*   Spec        the Exchange routing table driven through Client          *)
(*   SpecEgress  the egress scheduler of one server Connection             *)
(*   SpecStream  one IOStream under its callers and the event loop         *)
(*   SpecIngress the inbound frames of one server Connection               *)
(*   SpecFrame   the 32-bit frame header of one message                    *)
(*   SpecRemote  the handshake and header reads of one remote client       *)
(*   SpecReads   the reads of one server Connection, byte by byte          *)
(***************************************************************************)
EXTENDS Integers, Sequences, FiniteSets, TLC

VARIABLES
    clients,        \* Exchange._clients: client -> list of qids
    subscribers,    \* Exchange._subscribers: qid -> set of clients
    connected,      \* Client.connected, per client
    hasExchange,    \* whether the attribute Client._exchange exists, per client
    connState,      \* per server Connection: "open", "stuck" or "closed"
    last,           \* the last call made on the exchange side and its outcome
    dq,             \* the deque objects of one Connection, by identity
    mq,             \* Connection._mq: qid -> deque (its identity in dq)
    fq,             \* Connection._fq: deque of (qid, deque) pairs
    recving,        \* Connection._recving
    recvScheduled,  \* number of _recv callbacks queued in the event loop
    inflight,       \* on_send_complete closures of the frames being written
    out,            \* MESSAGE frames handed to the stream, in write order
    nextSeq,        \* per qid, the number of on_message calls so far
    egressErr,      \* the exception the last egress step raised, or "none"
    stream,         \* one IOStream: its fields, and what it has done so far
    conn,           \* the inbound side of one server Connection
    frame,          \* one message and the frame header made for it
    remote,         \* one SocketClient (TcpClient or IpcClient) and its stream
    reader          \* one server Connection reading frames byte by byte

exchangeVars == <<clients, subscribers, connected, hasExchange, connState, last>>
egressVars == <<dq, mq, fq, recving, recvScheduled, inflight, out, nextSeq, egressErr>>
streamVars == <<stream>>
wireVars == <<conn, frame, remote, reader>>
vars == <<exchangeVars, egressVars, streamVars, wireVars>>

---------------------------------------------------------------------------
(* Bounds of the model *)

\* longest qid list a client may build up in Exchange._clients
MaxSubs == 2

\* in-process clients (jetstream.Client) and server connections (Connection)
LocalClients == {"a1"}
Connections == {"k1"}
Clients == LocalClients \cup Connections

\* literal qids that are subscribed to: byte strings, as sequences of characters
QidStrings == {<<"a">>}
\* literal qids that messages are sent to
Targets == {<<"a">>, <<"a", "b">>, <<"b">>}
\* pattern sources handed to re.compile
PatStrings == {<<"a">>}
Msgs == {"m1"}

\* the qids one server connection receives messages for
EgressQids == {"x", "y"}
\* on_message calls made on the connection in all
MaxMessages == 5

\* IOStream(max_buffer_size=...), IOStream(read_chunk_size=...)
MaxBufferSize == 3
ReadChunkSize == 2
\* inbound bytes in all, write() calls in all
MaxIn == 4
MaxWrites == 1
\* inbound frames of the server connection in all
MaxFrames == 3
\* headers the server sends to the remote client in all
MaxHeaders == 3
\* frames the peer sends to the reading connection in all
MaxWireFrames == 2
\* the lengths asked of read_bytes, the lengths of the data given to write
ReadLens == {1, 2}
WriteLens == {0, 1}

Lit(s) == [pat |-> FALSE, s |-> s]
Pat(s) == [pat |-> TRUE, s |-> s]
Keys == {Lit(s) : s \in QidStrings} \cup {Pat(s) : s \in PatStrings}

---------------------------------------------------------------------------
(* Exchange *)

\* dict read that leaves absent keys absent
Get(d, k) == IF k \in DOMAIN d THEN d[k] ELSE {}

\* d[k] = v
Put(d, k, v) == [x \in DOMAIN d \cup {k} |-> IF x = k THEN v ELSE d[x]]

\* del d[k]
Del(d, k) == [x \in DOMAIN d \ {k} |-> d[x]]

InList(lst, x) == \E i \in 1..Len(lst) : lst[i] = x

\* list.remove(x): drops the first occurrence
ListRemove(lst, x) ==
    LET i == CHOOSE j \in 1..Len(lst) :
                 lst[j] = x /\ \A k \in 1..(j - 1) : lst[k] # x
    IN SubSeq(lst, 1, i - 1) \o SubSeq(lst, i + 1, Len(lst))

IsPrefix(p, s) == Len(p) <= Len(s) /\ SubSeq(s, 1, Len(p)) = p

\* a compiled pattern's match(qid): anchored at the start of qid
PatternMatch(p, qid) == IsPrefix(p, qid)

MatchesLiteralOnly(t, qid) == ~t.pat /\ t.s = qid

\* the test of dispatch's loop: a string equal to qid, or a pattern matching it
Matches(t, qid) ==
    \/ ~t.pat /\ t.s = qid
    \/ t.pat /\ PatternMatch(t.s, qid)

Outcome(cl, su, raised) == [clients |-> cl, subscribers |-> su, raised |-> raised]

ExchangeConnect(cl, su, c) == Outcome(Put(cl, c, <<>>), su, "none")

ExchangeSubscribe(cl, su, qid, c) ==
    IF c \notin DOMAIN cl
    THEN Outcome(cl, su, "AssertionError")
    ELSE Outcome([cl EXCEPT ![c] = Append(@, qid)],
                 Put(su, qid, Get(su, qid) \cup {c}),
                 "none")

ExchangeUnsubscribe(cl, su, qid, c) ==
    IF c \notin DOMAIN cl
    THEN Outcome(cl, su, "AssertionError")
    ELSE LET su1 == Put(su, qid, Get(su, qid))   \* defaultdict creates the key
         IN IF c \notin su1[qid]
            THEN Outcome(cl, su1, "KeyError")
            ELSE LET su2 == [su1 EXCEPT ![qid] = @ \ {c}]
                 IN IF ~InList(cl[c], qid)
                    THEN Outcome(cl, su2, "ValueError")
                    ELSE Outcome([cl EXCEPT ![c] = ListRemove(@, qid)], su2, "none")

\* the for loop of disconnect: it walks the very list unsubscribe shrinks
RECURSIVE DisconnectLoop(_, _, _, _)
DisconnectLoop(cl, su, c, i) ==
    IF i > Len(cl[c])
    THEN Outcome(cl, su, "none")
    ELSE LET r == ExchangeUnsubscribe(cl, su, cl[c][i], c)
         IN IF r.raised # "none"
            THEN r
            ELSE DisconnectLoop(r.clients, r.subscribers, c, i + 1)

ExchangeDisconnect(cl, su, c) ==
    IF c \notin DOMAIN cl
    THEN Outcome(cl, su, "none")
    ELSE LET r == DisconnectLoop(cl, su, c, 1)
         IN IF r.raised # "none"
            THEN r
            ELSE Outcome(Del(r.clients, c), r.subscribers, "none")

\* the set `clients` that dispatch builds, key by key
RECURSIVE CollectClients(_, _, _)
CollectClients(su, todo, qid) ==
    IF todo = {}
    THEN {}
    ELSE LET t == CHOOSE k \in todo : TRUE
         IN (IF Matches(t, qid) THEN su[t] ELSE {})
                \cup CollectClients(su, todo \ {t}, qid)

DispatchSet(su, qid) == CollectClients(su, DOMAIN su, qid)

ChoicesFirstOnly(cs) == IF cs = {} THEN {} ELSE {CHOOSE c \in cs : TRUE}

\* the list handed to random.choice
Choices(cs) == cs

NoCalls == [c \in Clients |-> <<>>]

\* on_message(qid, m) on every client of cs
Multicast(cs, qid, m) ==
    [c \in Clients |-> IF c \in cs THEN <<<<qid, m>>>> ELSE <<>>]

Call(op, c, qid, raised) ==
    [op |-> op, client |-> c, qid |-> qid, msg |-> "-", multicast |-> FALSE,
     raised |-> raised, calls |-> NoCalls]


NoKey == Lit(<<>>)

EmptyMap == [x \in {} |-> {}]

Effect(cl, su, con, hasEx, raised) ==
    [clients |-> cl, subscribers |-> su, connected |-> con,
     hasExchange |-> hasEx, raised |-> raised]

\* Client.disconnect
ClientDisconnect(cl, su, con, hasEx, c) ==
    IF ~hasEx[c]
    THEN Effect(cl, su, con, hasEx, "AttributeError")
    ELSE LET r == ExchangeDisconnect(cl, su, c)
         IN IF r.raised # "none"
            THEN Effect(r.clients, r.subscribers, con, hasEx, r.raised)
            ELSE Effect(r.clients, r.subscribers,
                        [con EXCEPT ![c] = FALSE], [hasEx EXCEPT ![c] = FALSE],
                        "none")

\* Client.connect
ClientConnect(cl, su, con, hasEx, c) ==
    IF con[c]
    THEN Effect(cl, su, con, hasEx, "AssertionError")
    ELSE LET r == ExchangeConnect(cl, su, c)
         IN Effect(r.clients, r.subscribers,
                   [con EXCEPT ![c] = TRUE], [hasEx EXCEPT ![c] = TRUE], "none")

\* Client.subscribe
ClientSubscribe(cl, su, con, hasEx, qid, c) ==
    IF ~con[c]
    THEN Effect(cl, su, con, hasEx, "none")
    ELSE LET r == ExchangeSubscribe(cl, su, qid, c)
         IN Effect(r.clients, r.subscribers, con, hasEx, r.raised)

\* Client.unsubscribe
ClientUnsubscribe(cl, su, con, hasEx, qid, c) ==
    IF ~con[c]
    THEN Effect(cl, su, con, hasEx, "none")
    ELSE LET r == ExchangeUnsubscribe(cl, su, qid, c)
         IN Effect(r.clients, r.subscribers, con, hasEx, r.raised)

\* A call made by a local client ends where the call ends.  A call made by a
\* server connection runs inside a stream callback: an exception either
\* reaches IOStream._run_callback, which closes the stream and so runs
\* Connection._on_close (Client.disconnect), or escapes through a deferred
\* event-loop callback, which leaves the stream open with no read armed.
Settle(c, e, call) ==
    /\ last' = call
    /\ IF e.raised = "none" \/ c \in LocalClients
       THEN /\ clients' = e.clients
            /\ subscribers' = e.subscribers
            /\ connected' = e.connected
            /\ hasExchange' = e.hasExchange
            /\ UNCHANGED connState
       ELSE \/ /\ connState' = [connState EXCEPT ![c] = "stuck"]
               /\ clients' = e.clients
               /\ subscribers' = e.subscribers
               /\ connected' = e.connected
               /\ hasExchange' = e.hasExchange
            \/ LET d == ClientDisconnect(e.clients, e.subscribers, e.connected,
                                         e.hasExchange, c)
               IN /\ connState' = [connState EXCEPT ![c] = "closed"]
                  /\ clients' = d.clients
                  /\ subscribers' = d.subscribers
                  /\ connected' = d.connected
                  /\ hasExchange' = d.hasExchange

\* a local client may call at any time; a connection acts on an inbound frame
MayAct(c) == IF c \in LocalClients THEN TRUE ELSE connState[c] = "open"

Connect(c) ==
    /\ MayAct(c)
    /\ LET e == ClientConnect(clients, subscribers, connected, hasExchange, c)
       IN Settle(c, e, Call("connect", c, NoKey, e.raised))
    /\ UNCHANGED <<egressVars, streamVars, wireVars>>

Subscribe(c, qid) ==
    /\ MayAct(c)
    /\ c \in DOMAIN clients => Len(clients[c]) < MaxSubs
    /\ LET e == ClientSubscribe(clients, subscribers, connected, hasExchange, qid, c)
       IN Settle(c, e, Call("subscribe", c, qid, e.raised))
    /\ UNCHANGED <<egressVars, streamVars, wireVars>>

Unsubscribe(c, qid) ==
    /\ MayAct(c)
    /\ LET e == ClientUnsubscribe(clients, subscribers, connected, hasExchange, qid, c)
       IN Settle(c, e, Call("unsubscribe", c, qid, e.raised))
    /\ UNCHANGED <<egressVars, streamVars, wireVars>>

\* Client.disconnect called by the user of a local client
Disconnect(c) ==
    /\ c \in LocalClients
    /\ LET e == ClientDisconnect(clients, subscribers, connected, hasExchange, c)
       IN /\ last' = Call("disconnect", c, NoKey, e.raised)
          /\ clients' = e.clients
          /\ subscribers' = e.subscribers
          /\ connected' = e.connected
          /\ hasExchange' = e.hasExchange
    /\ UNCHANGED <<connState, egressVars, streamVars, wireVars>>

\* Connection._on_close: the stream of a server connection has closed
OnClose(c) ==
    /\ c \in Connections
    /\ connState[c] # "closed"
    /\ LET e == ClientDisconnect(clients, subscribers, connected, hasExchange, c)
       IN /\ last' = Call("disconnect", c, NoKey, e.raised)
          /\ clients' = e.clients
          /\ subscribers' = e.subscribers
          /\ connected' = e.connected
          /\ hasExchange' = e.hasExchange
    /\ connState' = [connState EXCEPT ![c] = "closed"]
    /\ UNCHANGED <<egressVars, streamVars, wireVars>>

SendCall(op, c, q, m, multicast, raised, calls) ==
    [op |-> op, client |-> c, qid |-> Lit(q), msg |-> m,
     multicast |-> multicast, raised |-> raised, calls |-> calls]

Unchanged(raised) == Effect(clients, subscribers, connected, hasExchange, raised)

\* Client.send on a client that is not connected: nothing happens
SendIgnored(c, q, m, multicast) ==
    /\ MayAct(c)
    /\ ~connected[c]
    /\ Settle(c, Unchanged("none"),
              SendCall("send_ignored", c, q, m, multicast, "none", NoCalls))
    /\ UNCHANGED <<egressVars, streamVars, wireVars>>

\* Client.send with multicast set: Exchange.dispatch fans out
SendMulticast(c, q, m) ==
    /\ MayAct(c)
    /\ connected[c]
    /\ LET cs == DispatchSet(subscribers, q)
       IN Settle(c, Unchanged("none"),
                 SendCall("send", c, q, m, TRUE, "none", Multicast(cs, q, m)))
    /\ UNCHANGED <<egressVars, streamVars, wireVars>>

\* Client.send with multicast clear: Exchange.dispatch picks one client
SendUnicast(c, q, m) ==
    /\ MayAct(c)
    /\ connected[c]
    /\ LET cs == Choices(DispatchSet(subscribers, q))
       IN IF cs = {}
          THEN Settle(c, Unchanged("IndexError"),
                      SendCall("send", c, q, m, FALSE, "IndexError", NoCalls))
          ELSE \E t \in cs :
                   Settle(c, Unchanged("none"),
                          SendCall("send", c, q, m, FALSE, "none",
                                   Multicast({t}, q, m)))
    /\ UNCHANGED <<egressVars, streamVars, wireVars>>

InitExchange ==
    /\ clients = EmptyMap
    /\ subscribers = EmptyMap
    /\ connected = [c \in Clients |-> FALSE]
    /\ hasExchange = [c \in Clients |-> c \in Connections]
    /\ connState = [c \in Connections |-> "open"]
    /\ last = Call("init", "a1", NoKey, "none")

InitEgress ==
    /\ dq = <<>>
    /\ mq = EmptyMap
    /\ fq = <<>>
    /\ recving = FALSE
    /\ recvScheduled = 0
    /\ inflight = <<>>
    /\ out = <<>>
    /\ nextSeq = [q \in EgressQids |-> 0]
    /\ egressErr = "none"

---------------------------------------------------------------------------
(* Egress scheduler of one server Connection (its stream stays open).       *)
(* A message is the number of the on_message call of its qid that brought  *)
(* it; a frame of out is the qid and message written, with whether every   *)
(* qid had a backlog when the sender picked it.                            *)

Written(qid) == Cardinality({i \in 1..Len(out) : out[i].qid = qid})

\* messages of qid taken by on_message and not yet written to the stream
Backlog(qid) == nextSeq[qid] - Written(qid)

RECURSIVE SumOver(_, _)
SumOver(f, S) ==
    IF S = {} THEN 0
    ELSE LET x == CHOOSE y \in S : TRUE IN f[x] + SumOver(f, S \ {x})

\* on_message calls so far
Accepted == SumOver(nextSeq, EgressQids)

Front(q) == SubSeq(q, 1, Len(q) - 1)

\* deque.pop(): takes the rightmost element
Pop(q) == [msg |-> q[Len(q)], rest |-> Front(q)]

ScheduleIfAny(f, n) == IF f # <<>> THEN n + 1 ELSE n

\* add_callback(self._recv) unless a send is under way
ScheduleIfIdle(r, n) == IF ~r THEN n + 1 ELSE n

\* Connection.on_message(qid, message)
OnMessage(qid) ==
    /\ Accepted < MaxMessages
    /\ LET fresh == qid \notin DOMAIN mq          \* defaultdict makes a deque
           id == IF fresh THEN Len(dq) + 1 ELSE mq[qid]
           dq1 == IF fresh THEN Append(dq, <<>>) ELSE dq
           msg == nextSeq[qid] + 1
       IN /\ dq' = [dq1 EXCEPT ![id] = Append(@, msg)]
          /\ mq' = Put(mq, qid, id)
          /\ fq' = IF Len(dq'[id]) = 1 THEN Append(fq, [qid |-> qid, q |-> id])
                   ELSE fq
          /\ nextSeq' = [nextSeq EXCEPT ![qid] = msg]
    /\ recvScheduled' = ScheduleIfIdle(recving, recvScheduled)
    /\ egressErr' = "none"
    /\ UNCHANGED <<recving, inflight, out>>
    /\ UNCHANGED <<exchangeVars, streamVars, wireVars>>

\* Connection._recv, run by the event loop
Recv ==
    /\ recvScheduled > 0
    /\ recvScheduled' = recvScheduled - 1
    /\ IF fq = <<>>
       THEN /\ egressErr' = "AssertionError"
            /\ UNCHANGED <<dq, fq, recving, inflight, out>>
       ELSE LET e == fq[Len(fq)]                  \* self._fq.pop()
            IN /\ fq' = Front(fq)
               /\ recving' = TRUE
               /\ IF dq[e.q] = <<>>
                  THEN /\ egressErr' = "IndexError"
                       /\ UNCHANGED <<dq, inflight, out>>
                  ELSE LET p == Pop(dq[e.q])
                       IN /\ dq' = [dq EXCEPT ![e.q] = p.rest]
                          /\ out' = Append(out,
                                 [qid |-> e.qid, msg |-> p.msg,
                                  both |-> \A x \in EgressQids : Backlog(x) > 0])
                          /\ inflight' = Append(inflight, e)
                          /\ egressErr' = "none"
    /\ UNCHANGED <<mq, nextSeq>>
    /\ UNCHANGED <<exchangeVars, streamVars, wireVars>>

\* on_send_complete of the oldest frame being written: the stream runs the
\* completions in write order.  A KeyError leaves through
\* IOStream._run_callback, which closes the stream.
SendComplete ==
    /\ inflight # <<>>
    /\ egressErr # "KeyError"
    /\ LET e == Head(inflight)
           fq1 == IF dq[e.q] # <<>> THEN Append(fq, e) ELSE fq
       IN /\ inflight' = Tail(inflight)
          /\ IF dq[e.q] = <<>> /\ e.qid \notin DOMAIN mq
             THEN /\ egressErr' = "KeyError"
                  /\ UNCHANGED <<mq, fq, recving, recvScheduled>>
             ELSE /\ egressErr' = "none"
                  /\ fq' = fq1
                  /\ mq' = IF dq[e.q] # <<>> THEN mq ELSE Del(mq, e.qid)
                  /\ recvScheduled' = ScheduleIfAny(fq1, recvScheduled)
                  /\ recving' = IF fq1 # <<>> THEN recving ELSE FALSE
    /\ UNCHANGED <<dq, out, nextSeq>>
    /\ UNCHANGED <<exchangeVars, streamVars, wireVars>>

NextEgress ==
    \/ \E qid \in EgressQids : OnMessage(qid)
    \/ Recv
    \/ SendComplete

---------------------------------------------------------------------------
(* IOStream.  The variable stream is the object: its fields under their    *)
(* own names, then what it has done so far.  Inbound byte i is the number  *)
(* i, and so is the i-th byte handed to write(); raised is the exception   *)
(* the running step lets escape, or "none".                                *)

\* self._read_bytes = None
None == -1

CallbackKinds == {"ok", "raises", "closes"}

READ == "READ"
WRITE == "WRITE"
ERROR == "ERROR"

Range(a, n) == [i \in 1..n |-> a + i]

KeepAll(x, n) == x

\* the slice x[n:]
Drop(x, n) == SubSeq(x, n + 1, Len(x))

RECURSIVE Join(_)
Join(acc) == IF acc = <<>> THEN <<>> ELSE Head(acc) \o Join(Tail(acc))

Raise(s, e) == [s EXCEPT !.raised = e]

NoCloseCallback(s) == "none"

\* the callback close() runs: self._close_callback
CloseCallbackOf(s) == s.close_callback

RECURSIVE Close(_), RunCallback(_, _, _, _), Invoke(_, _, _, _)

\* a user callback: the stream records the call, then the callback returns,
\* raises, or calls close() on the stream
Invoke(s, cb, role, arg) ==
    IF cb = "none"
    THEN Raise(s, "TypeError")
    ELSE LET s1 == CASE role = "read" -> [s EXCEPT !.delivered = Append(@, arg)]
                     [] role = "write" -> [s EXCEPT !.completed = Append(@, arg)]
                     [] role = "close" -> [s EXCEPT !.closeCallbackRuns = @ + 1]
         IN CASE cb = "ok" -> s1
              [] cb = "raises" -> Raise(s1, "Exception")
              [] cb = "closes" -> Close(s1)

\* IOStream._run_callback
RunCallback(s, cb, role, arg) ==
    LET s1 == Invoke(s, cb, role, arg)
    IN IF s1.raised # "none" THEN Close(s1) ELSE s1

\* IOStream.close
Close(s) ==
    IF s.socket = "none"
    THEN s
    ELSE LET s1 == [s EXCEPT !.registered = {},
                             !.removeHandlerCalls = @ + 1,
                             !.socketCloseCalls = @ + 1,
                             !.socket = "none",
                             !.cbAtClose = s.close_callback]
         IN IF CloseCallbackOf(s1) # "none"
            THEN RunCallback(s1, CloseCallbackOf(s1), "close", <<>>)
            ELSE s1

\* io_loop.update_handler(self.socket.fileno(), self._state)
UpdateHandler(s) ==
    IF s.socket = "none"
    THEN Raise(s, "AttributeError")
    ELSE [s EXCEPT !.registered = s.state]

\* IOStream._add_io_state
AddIoState(s, bit) ==
    IF bit \notin s.state
    THEN UpdateHandler([s EXCEPT !.state = @ \cup {bit}])
    ELSE s

\* IOStream._remove_io_state: it tests the bit the way _add_io_state does
RemoveIoState(s, bit) ==
    IF bit \notin s.state
    THEN UpdateHandler([s EXCEPT !.state = @ \ {bit}])
    ELSE s

\* the while loop of _consume
RECURSIVE Accumulate(_, _, _, _)
Accumulate(acc, n, buf, loc) ==
    IF n >= loc
    THEN [acc |-> acc, n |-> n, buf |-> buf, raised |-> "none"]
    ELSE IF buf = <<>>
         THEN [acc |-> acc, n |-> n, buf |-> buf, raised |-> "IndexError"]
         ELSE Accumulate(Append(acc, Head(buf)), n + Len(Head(buf)), Tail(buf), loc)

\* IOStream._consume on the read buffer buf.  With loc = None the slices
\* x[:loc] and x[loc:] are both all of x.
Consume(buf, loc) ==
    IF buf = <<>>
    THEN [buf |-> buf, result |-> <<>>, raised |-> "IndexError"]
    ELSE LET x == Head(buf)
             rest == Tail(buf)
         IN IF loc = None
            THEN [buf |-> <<x>> \o rest, result |-> x, raised |-> "none"]
            ELSE IF Len(x) > loc
            THEN [buf |-> <<Drop(x, loc)>> \o rest, result |-> SubSeq(x, 1, loc),
                  raised |-> "none"]
            ELSE IF Len(x) = loc
            THEN [buf |-> rest, result |-> x, raised |-> "none"]
            ELSE LET a == Accumulate(<<x>>, Len(x), rest, loc)
                 IN IF a.raised # "none"
                    THEN [buf |-> a.buf, result |-> <<>>, raised |-> a.raised]
                    ELSE IF a.n > loc
                    THEN LET y == a.acc[Len(a.acc)]
                             i == Len(y) - (a.n - loc)
                         IN [buf |-> <<Drop(y, i)>> \o a.buf,
                             result |-> Join(Front(a.acc) \o <<SubSeq(y, 1, i)>>),
                             raised |-> "none"]
                    ELSE [buf |-> a.buf, result |-> Join(a.acc), raised |-> "none"]

ConsumeKeepingSize(s, loc) ==
    LET c == Consume(s.read_buffer, loc)
    IN [s |-> [s EXCEPT !.read_buffer = c.buf], result |-> c.result]

\* self._consume(loc), with the size bookkeeping of its last lines
ConsumeFrom(s, loc) ==
    LET c == Consume(s.read_buffer, loc)
    IN IF c.raised # "none"
       THEN [s |-> Raise([s EXCEPT !.read_buffer = c.buf], c.raised), result |-> <<>>]
       ELSE [s |-> [s EXCEPT !.read_buffer = c.buf,
                             !.read_buffer_size = @ - Len(c.result)],
             result |-> c.result]

\* IOStream._handle_read; r is what socket.recv did
HandleRead(s, r) ==
    IF s.read_buffer_size >= s.max_buffer_size
    THEN s
    ELSE CASE r.kind = "eagain" -> s
           [] r.kind = "error" -> Close(s)
           [] r.kind = "eof" -> Close(s)
           [] r.kind = "data" ->
                LET s1 == [s EXCEPT !.read_buffer = Append(@, Range(s.received, r.n)),
                                    !.read_buffer_size = @ + r.n,
                                    !.received = @ + r.n]
                IN IF s1.read_buffer_size >= s1.max_buffer_size
                   THEN Close(s1)
                   ELSE IF s1.read_buffer_size >= s1.read_bytes
                   THEN LET s2 == [s1 EXCEPT !.read_callback = "none",
                                             !.read_bytes = None]
                            c == ConsumeFrom(s2, s1.read_bytes)
                        IN IF c.s.raised # "none"
                           THEN c.s
                           ELSE RunCallback(c.s, s1.read_callback, "read", c.result)
                   ELSE s1

\* IOStream._handle_write; r is what socket.send did
HandleWrite(s, r) ==
    IF s.write_buffer_size = 0
    THEN RemoveIoState(s, WRITE)
    ELSE IF s.write_buffer = <<>>
    THEN Raise(s, "IndexError")
    ELSE LET e == Head(s.write_buffer)
             s1 == [s EXCEPT !.write_buffer = Tail(@)]
             rearm(t) == IF t.write_buffer_size > 0 THEN AddIoState(t, WRITE)
                         ELSE RemoveIoState(t, WRITE)
         IN CASE r.kind = "error" -> Close(s1)
              [] r.kind = "eagain" -> rearm(s1)
              [] r.kind = "sent" ->
                   LET n == IF r.n < Len(e.data) THEN r.n ELSE Len(e.data)
                       s2 == [s1 EXCEPT
                                !.write_buffer =
                                    IF n < Len(e.data)
                                    THEN <<[e EXCEPT !.data = Drop(e.data, n)]>> \o @
                                    ELSE @,
                                !.write_buffer_size = @ - n,
                                !.sent = @ \o SubSeq(e.data, 1, n)]
                       s3 == rearm(s2)
                   IN IF n = Len(e.data) /\ e.callback # "none" /\ s3.raised = "none"
                      THEN RunCallback(s3, e.callback, "write", e.id)
                      ELSE s3

\* the tail of _handle_events: the interest mask is worked out afresh
Recompute(s) ==
    LET state == {ERROR}
                 \cup (IF s.read_bytes # None /\ s.read_bytes # 0 THEN {READ} ELSE {})
                 \cup (IF s.write_buffer_size # 0 THEN {WRITE} ELSE {})
    IN IF state # s.state THEN UpdateHandler([s EXCEPT !.state = state]) ELSE s

\* IOStream._handle_events
HandleEvents(s, events, recvd, sendd) ==
    IF s.socket = "none"
    THEN s
    ELSE LET s1 == IF READ \in events THEN HandleRead(s, recvd) ELSE s
         IN IF s1.raised # "none" \/ s1.socket = "none"
            THEN s1
            ELSE LET s2 == IF WRITE \in events THEN HandleWrite(s1, sendd) ELSE s1
                 IN IF s2.raised # "none" \/ s2.socket = "none"
                    THEN s2
                    ELSE IF ERROR \in events
                    THEN Close(s2)
                    ELSE Recompute(s2)

\* IOStream.read_bytes
ReadBytes(s, n, cb) ==
    IF s.read_callback # "none"
    THEN Raise(s, "AssertionError")
    ELSE IF s.read_buffer_size >= n
    THEN LET c == ConsumeFrom([s EXCEPT !.asked = Append(@, n)], n)
         IN IF c.s.raised # "none" THEN c.s ELSE Invoke(c.s, cb, "read", c.result)
    ELSE IF s.socket = "none"
    THEN Raise(s, "IOError")
    ELSE AddIoState([s EXCEPT !.read_bytes = n, !.read_callback = cb,
                              !.asked = Append(@, n)], READ)

\* IOStream.write
Write(s, len, cb) ==
    IF s.socket = "none"
    THEN Raise(s, "IOError")
    ELSE AddIoState(
             [s EXCEPT !.write_buffer =
                           Append(@, [data |-> Range(s.written, len),
                                      callback |-> cb, id |-> s.writes + 1]),
                       !.write_buffer_size = @ + len,
                       !.written = @ + len,
                       !.writes = @ + 1],
             WRITE)

\* IOStream.set_close_callback
SetCloseCallback(s, cb) == [s EXCEPT !.close_callback = cb]

\* IOStream.__init__
NewStream ==
    [socket |-> "open", max_buffer_size |-> MaxBufferSize,
     read_buffer |-> <<>>, read_buffer_size |-> 0,
     write_buffer |-> <<>>, write_buffer_size |-> 0,
     read_bytes |-> None, read_callback |-> "none", close_callback |-> "none",
     state |-> {ERROR}, registered |-> {ERROR},
     received |-> 0, written |-> 0, writes |-> 0,
     asked |-> <<>>, delivered |-> <<>>, sent |-> <<>>, completed |-> <<>>,
     removeHandlerCalls |-> 0, socketCloseCalls |-> 0, closeCallbackRuns |-> 0,
     cbAtClose |-> "none", raised |-> "none"]

InitStream == stream = NewStream

\* every step starts with no exception pending
Step == [stream EXCEPT !.raised = "none"]

\* what socket.recv(read_chunk_size) may do when _handle_read calls it
RecvOutcomes(s, events) ==
    IF READ \notin events
    THEN {[kind |-> "eagain"]}
    ELSE {[kind |-> k] : k \in {"eagain", "error", "eof"}}
             \cup {[kind |-> "data", n |-> n] :
                      n \in {m \in 1..ReadChunkSize : s.received + m <= MaxIn}}

\* what socket.send(x) may do when _handle_write calls it
SendOutcomes(s, events) ==
    IF WRITE \notin events
    THEN {[kind |-> "eagain"]}
    ELSE {[kind |-> k] : k \in {"error", "eagain"}}
             \cup {[kind |-> "sent", n |-> n] :
                      n \in IF s.write_buffer = <<>> THEN {0}
                            ELSE IF Head(s.write_buffer).data = <<>> THEN {0}
                            ELSE 1..Len(Head(s.write_buffer).data)}

StreamReadBytes(n, cb) ==
    /\ stream' = ReadBytes(Step, n, cb)
    /\ UNCHANGED <<exchangeVars, egressVars, wireVars>>

StreamWrite(len, cb) ==
    /\ stream.writes < MaxWrites
    /\ stream' = Write(Step, len, cb)
    /\ UNCHANGED <<exchangeVars, egressVars, wireVars>>

StreamSetCloseCallback(cb) ==
    /\ stream' = SetCloseCallback(Step, cb)
    /\ UNCHANGED <<exchangeVars, egressVars, wireVars>>

StreamClose ==
    /\ stream' = Close(Step)
    /\ UNCHANGED <<exchangeVars, egressVars, wireVars>>

\* the event loop reports readiness for the mask it holds for the stream
StreamHandleEvents(events, recvd, sendd) ==
    /\ events # {}
    /\ events \subseteq stream.registered
    /\ stream' = HandleEvents(Step, events, recvd, sendd)
    /\ UNCHANGED <<exchangeVars, egressVars, wireVars>>

\* a readiness event reported for a stream that has closed meanwhile
StreamStaleEvents(events) ==
    /\ stream.socket = "none"
    /\ stream' = HandleEvents(Step, events,
                              [kind |-> "eagain"], [kind |-> "eagain"])
    /\ UNCHANGED <<exchangeVars, egressVars, wireVars>>

NextStream ==
    \/ \E n \in ReadLens, cb \in CallbackKinds : StreamReadBytes(n, cb)
    \/ \E len \in WriteLens, cb \in CallbackKinds \cup {"none"} :
           StreamWrite(len, cb)
    \/ \E cb \in CallbackKinds : StreamSetCloseCallback(cb)
    \/ StreamClose
    \/ \E events \in SUBSET {READ, WRITE, ERROR} :
           \E recvd \in RecvOutcomes(stream, events),
              sendd \in SendOutcomes(stream, events) :
               StreamHandleEvents(events, recvd, sendd)
    \/ \E events \in SUBSET {READ, WRITE, ERROR} \ {{}} : StreamStaleEvents(events)

---------------------------------------------------------------------------
(* Inbound side of one server Connection.  A recv chunk holds whole frames, *)
(* so the reads of a frame's qid and payload are served from the buffer;   *)
(* conn.buf is the frames buffered behind the one being handled.  A        *)
(* callback runs either from IOStream._handle_read, under _run_callback    *)
(* ("guarded"), or from io_loop.add_callback ("deferred").                 *)

Conn == "k1"

\* the lengths, in frames, of a recv chunk
ChunkLens == {1, 2}

InFrames ==
    {[op |-> o, x |-> 0, qid |-> <<>>, mlen |-> 0] : o \in {"CONNECT", "DISCONNECT"}}
        \cup {[op |-> o, x |-> x, qid |-> q, mlen |-> m] :
                 o \in {"SUBSCRIBE", "UNSUBSCRIBE", "SEND"},
                 x \in {0, 1}, q \in QidStrings, m \in {0, 1}}

Chunks == UNION {[1..n -> InFrames] : n \in ChunkLens}

\* the connection together with the exchange tables it acts on
Ingress(c, cl, su, con, hasEx) ==
    [open |-> c.open, armed |-> c.armed, buf |-> c.buf, deferred |-> c.deferred,
     handled |-> c.handled, arrived |-> c.arrived, raised |-> "none",
     clients |-> cl, subscribers |-> su, connected |-> con, hasExchange |-> hasEx]

WithTables(st, e) ==
    [st EXCEPT !.clients = e.clients, !.subscribers = e.subscribers,
               !.connected = e.connected, !.hasExchange = e.hasExchange,
               !.raised = e.raised]

\* self._stream.close() with Connection._on_close as the close callback; a
\* pending read stays as it is
ConnClose(st) ==
    IF ~st.open
    THEN st
    ELSE LET d == ClientDisconnect(st.clients, st.subscribers, st.connected,
                                   st.hasExchange, Conn)
             r == WithTables([st EXCEPT !.open = FALSE], d)
         IN IF st.raised # "none" /\ d.raised = "none"
            THEN [r EXCEPT !.raised = st.raised]
            ELSE r

\* the qid as the frame's flag makes it: re.compile(qid) if x else qid
FrameKey(f) == IF f.x = 1 THEN Pat(f.qid) ELSE Lit(f.qid)

\* what self.send(qid, message, multicast) raises
SendRaised(st, f) ==
    IF ~st.connected[Conn] THEN "none"
    ELSE IF f.x = 1 THEN "none"
    ELSE IF Choices(DispatchSet(st.subscribers, f.qid)) = {} THEN "IndexError"
    ELSE "none"

Handled(st, f, ctx, e) ==
    [st EXCEPT !.handled =
        Append(@, [frame |-> f, ctx |-> ctx,
                   connected |-> st.connected[Conn],
                   changed |-> (e.clients # st.clients
                                \/ e.subscribers # st.subscribers),
                   raised |-> e.raised])]

Same(st, raised) ==
    Effect(st.clients, st.subscribers, st.connected, st.hasExchange, raised)

\* what _on_header does with frame f before it reads on: the effect of the
\* frame on the exchange, and the step that follows
FrameEffect(st, f) ==
    CASE f.op = "CONNECT" ->
            IF ~st.open
            THEN [e |-> Same(st, "IOError"), next |-> "stop"]
            ELSE [e |-> ClientConnect(st.clients, st.subscribers, st.connected,
                                      st.hasExchange, Conn),
                  next |-> "read"]
      [] f.op = "DISCONNECT" ->
            [e |-> Same(st, "none"), next |-> "close"]
      [] f.op = "SUBSCRIBE" ->
            IF f.mlen # 0
            THEN [e |-> Same(st, "AssertionError"), next |-> "stop"]
            ELSE [e |-> ClientSubscribe(st.clients, st.subscribers, st.connected,
                                        st.hasExchange, FrameKey(f), Conn),
                  next |-> "read"]
      [] f.op = "UNSUBSCRIBE" ->
            IF f.mlen # 0
            THEN [e |-> Same(st, "AssertionError"), next |-> "stop"]
            ELSE [e |-> ClientUnsubscribe(st.clients, st.subscribers,
                                          st.connected, st.hasExchange,
                                          FrameKey(f), Conn),
                  next |-> "read"]
      [] f.op = "SEND" ->
            IF f.mlen > 0
            THEN [e |-> Same(st, SendRaised(st, f)), next |-> "on_header"]
            ELSE [e |-> Same(st, "none"), next |-> "_send"]

\* the handling of the frame at the head of the buffer, up to the step that
\* follows it
HandleFrame(st, ctx) ==
    LET f == Head(st.buf)
        s0 == [st EXCEPT !.buf = Tail(@)]
        d == FrameEffect(s0, f)
    IN [s1 |-> WithTables(Handled(s0, f, ctx, d.e), d.e),
        next |-> d.next, frame |-> f]

\* except IOError: self._stream.close()
OnIOError(r) ==
    IF r.raised = "IOError" THEN ConnClose([r EXCEPT !.raised = "none"]) ELSE r

RECURSIVE OnHeader(_, _), ReadHeader(_, _)

\* self._stream.read_bytes(4, self._on_header)
ReadHeader(st, ctx) ==
    CHOOSE res \in
        {IF s.armed
         THEN [s EXCEPT !.raised = "AssertionError"]
         ELSE IF s.buf # <<>>
         THEN OnHeader(s, ctx)
         ELSE IF ~s.open
         THEN [s EXCEPT !.raised = "IOError"]
         ELSE [s EXCEPT !.armed = TRUE] : s \in {st}} : TRUE

\* the step after the frame handled in h
Follow(h, ctx) ==
    IF h.s1.raised # "none"
    THEN h.s1
    ELSE CASE h.next = "read" -> ReadHeader(h.s1, ctx)
           [] h.next = "close" -> ConnClose(h.s1)
           [] h.next = "on_header" ->
                [h.s1 EXCEPT !.deferred = Append(@, [f |-> "on_header"])]
           [] h.next = "_send" ->
                [h.s1 EXCEPT !.deferred =
                    Append(@, [f |-> "_send", frame |-> h.frame])]

\* Connection._on_header on the frame at the head of the buffer
OnHeader(st, ctx) ==
    CHOOSE res \in
        {OnIOError(r) : r \in {Follow(h, ctx) : h \in {HandleFrame(st, ctx)}}} :
        TRUE

\* IOStream._run_callback around a callback: an exception closes the stream
Guarded(r) == IF r.raised # "none" THEN ConnClose(r) ELSE r

Land(r) ==
    /\ conn' = [open |-> r.open, armed |-> r.armed, buf |-> r.buf,
                deferred |-> r.deferred, handled |-> r.handled,
                arrived |-> r.arrived, raised |-> r.raised]
    /\ clients' = r.clients
    /\ subscribers' = r.subscribers
    /\ connected' = r.connected
    /\ hasExchange' = r.hasExchange
    /\ UNCHANGED <<connState, last, egressVars, streamVars, frame, remote, reader>>

Now == Ingress(conn, clients, subscribers, connected, hasExchange)

\* the event loop reports READ: the chunk is buffered and the pending header
\* read is completed
ConnArrive(chunk) ==
    /\ conn.open
    /\ conn.armed
    /\ conn.arrived + Len(chunk) <= MaxFrames
    /\ \E now \in {Now} :
         \E r \in {Guarded(OnHeader([now EXCEPT !.buf = chunk, !.armed = FALSE,
                                                !.arrived = @ + Len(chunk)],
                                    "guarded"))} :
            Land(r)

\* the event loop runs the callback at the head of its queue
ConnCallback ==
    /\ conn.deferred # <<>>
    /\ \E s0 \in {[Now EXCEPT !.deferred = Tail(@)]} :
         LET cb == Head(conn.deferred)
         IN IF cb.f = "on_header"
            THEN \E r \in {ReadHeader(s0, "deferred")} :
                    Land(OnIOError(r))
            ELSE \E x \in {SendRaised(s0, cb.frame)} :
                    Land(IF x # "none"
                         THEN [s0 EXCEPT !.raised = x]
                         ELSE [s0 EXCEPT !.deferred =
                                  Append(@, [f |-> "on_header"])])

\* the event loop reports ERROR for the socket: _handle_events closes
ConnHangup ==
    /\ conn.open
    /\ \E r \in {ConnClose(Now)} : Land(r)

\* Connection.__init__: the first header read is pending
InitIngress ==
    conn = [open |-> TRUE, armed |-> TRUE, buf |-> <<>>, deferred |-> <<>>,
            handled |-> <<>>, arrived |-> 0, raised |-> "none"]

NextIngress ==
    \/ \E chunk \in Chunks : ConnArrive(chunk)
    \/ ConnCallback
    \/ ConnHangup

---------------------------------------------------------------------------
(* Frame headers.  A header is the 32 bits struct.pack('!I', header) puts  *)
(* on the wire, bit i weighing 2^i; the lengths drawn stay below 2^31.     *)
(* frame.wire holds the header made, once one is made.                     *)

OP_MESSAGE == 5
OP_SEND == 6

\* IOStream(max_buffer_size=104857600)
DefaultMaxBufferSize == 104857600

\* assert len(qid) <= 255
MaxQidLength == 255

HeaderBits == 0..31

Bits(n) == [i \in HeaderBits |-> IF i = 31 THEN 0 ELSE (n \div 2^i) % 2]

\* b << k
Shl(b, k) == [i \in HeaderBits |-> IF i >= k THEN b[i - k] ELSE 0]

\* a | b
Or(a, b) == [i \in HeaderBits |-> IF a[i] = 1 \/ b[i] = 1 THEN 1 ELSE 0]

\* the n bits of h from bit lo up, as a number: (h & mask) >> lo
RECURSIVE Field(_, _, _)
Field(h, lo, n) ==
    IF n = 0 THEN 0 ELSE h[lo] + 2 * Field(h, lo + 1, n - 1)

QidLengthBits(qid_length) == Shl(Bits(qid_length), 20)

\* the header of SocketClient._send
SendHeader(qid_length, message_length, multicast) ==
    Or(Or(Or(Shl(Bits(OP_SEND), 29),
             Shl(Bits(IF multicast THEN 1 ELSE 0), 28)),
          QidLengthBits(qid_length)),
       Bits(message_length))

\* the header of Connection._recv
MessageHeader(qid_length, message_length) ==
    Or(Or(Shl(Bits(OP_MESSAGE), 29), QidLengthBits(qid_length)),
       Bits(message_length))

\* the fields _on_header takes out of a header
Decode(h) ==
    [op |-> Field(h, 29, 3), flag |-> Field(h, 28, 1),
     qid_length |-> Field(h, 20, 8), message_length |-> Field(h, 0, 20)]

QidLens == {0, 1, 255, 256}
MessageLens == {0, 1, 1048575, 1048576, 104857600, 104857601}

NoFrame ==
    [qid_length |-> 0, message_length |-> 0, multicast |-> FALSE,
     wire |-> <<>>, raised |-> "none"]

FrameInputs ==
    {[NoFrame EXCEPT !.qid_length = q, !.message_length = m, !.multicast = x] :
        q \in QidLens, m \in MessageLens, x \in BOOLEAN}

\* SocketClient._send: the header of a SEND frame
ClientSendFrame ==
    /\ frame.wire = <<>> /\ frame.raised = "none"
    /\ frame' =
         IF frame.qid_length > MaxQidLength
            \/ frame.message_length > DefaultMaxBufferSize
         THEN [frame EXCEPT !.raised = "AssertionError"]
         ELSE [frame EXCEPT !.wire =
                  <<[op |-> OP_SEND,
                     flag |-> IF frame.multicast THEN 1 ELSE 0,
                     header |-> SendHeader(frame.qid_length, frame.message_length,
                                           frame.multicast)]>>]
    /\ UNCHANGED <<exchangeVars, egressVars, streamVars, conn, remote, reader>>

\* Connection.on_message, then Connection._recv: the header of a MESSAGE frame
ConnRecvFrame ==
    /\ frame.wire = <<>> /\ frame.raised = "none"
    /\ frame' =
         IF frame.message_length > DefaultMaxBufferSize
         THEN [frame EXCEPT !.raised = "AssertionError"]
         ELSE [frame EXCEPT !.wire =
                  <<[op |-> OP_MESSAGE, flag |-> 0,
                     header |-> MessageHeader(frame.qid_length,
                                              frame.message_length)]>>]
    /\ UNCHANGED <<exchangeVars, egressVars, streamVars, conn, remote, reader>>

InitFrame == frame = NoFrame

NextFrame == ClientSendFrame \/ ConnRecvFrame

---------------------------------------------------------------------------
(* A remote client: TcpClient / IpcClient.connect and SocketClient's       *)
(* header reads.  The server's bytes are headers of four bytes, the op in  *)
(* the first; remote.part counts the bytes buffered of a header that is    *)
(* not yet whole, remote.buf lists the ops of the whole headers buffered.  *)
(* A MESSAGE header is one with qid_length = message_length = 0.           *)

OP_CONNECTED == 1

HeaderOps == 0..7

HandshakeAcceptsAll(op) == TRUE

\* the test of on_connected: (header >> 29) != OP_CONNECTED raises
HandshakeAccepts(op) == op = OP_CONNECTED

\* IOStream.close() with SocketClient._on_disconnected as the close callback
RemoteClose(r) ==
    IF ~r.open
    THEN r
    ELSE [r EXCEPT !.open = FALSE, !.connected = FALSE,
                   !.onDisconnectedCalls = @ + 1]

RECURSIVE RemoteReadHeader(_, _), RemoteCallback(_, _)

\* self._stream.read_bytes(4, cb)
RemoteReadHeader(r, cb) ==
    IF r.armed # "none"
    THEN [r EXCEPT !.raised = "AssertionError"]
    ELSE IF r.buf # <<>>
    THEN RemoteCallback(r, cb)
    ELSE IF ~r.open
    THEN [r EXCEPT !.raised = "IOError"]
    ELSE [r EXCEPT !.armed = cb]

\* the callback cb on the header at the head of the buffer: on_connected of
\* TcpClient.connect / IpcClient.connect, or SocketClient._on_header
RemoteCallback(r, cb) ==
    LET op == Head(r.buf)
        r0 == [r EXCEPT !.buf = Tail(@), !.headers = Append(@, op)]
    IN IF cb = "on_connected"
       THEN IF ~HandshakeAccepts(op)
            THEN [r0 EXCEPT !.raised = "handshake error"]
            ELSE RemoteReadHeader([r0 EXCEPT !.connected = TRUE,
                                             !.onConnectedCalls = @ + 1],
                                  "_on_header")
       ELSE IF op = OP_MESSAGE
            THEN LET r1 == RemoteReadHeader([r0 EXCEPT !.onMessageCalls = @ + 1],
                                            "_on_header")
                 IN IF r1.raised = "IOError"
                    THEN RemoteClose([r1 EXCEPT !.raised = "none"])
                    ELSE r1
            ELSE [r0 EXCEPT !.raised = "AssertionError"]

\* IOStream._run_callback around the completion of the pending read
RemoteGuarded(r) == IF r.raised # "none" THEN RemoteClose(r) ELSE r

NoRemote ==
    [stream |-> FALSE, open |-> FALSE, armed |-> "none", buf |-> <<>>,
     part |-> 0, partOp |-> 0, headers |-> <<>>, connected |-> FALSE,
     onConnectedCalls |-> 0, onDisconnectedCalls |-> 0, onMessageCalls |-> 0,
     wroteConnect |-> FALSE, raised |-> "none"]

RemoteStep == [remote EXCEPT !.raised = "none"]

OthersUnchanged ==
    UNCHANGED <<exchangeVars, egressVars, streamVars, conn, frame, reader>>

\* TcpClient.connect / IpcClient.connect
RemoteConnect ==
    /\ ~remote.stream
    /\ remote' = [RemoteStep EXCEPT !.stream = TRUE, !.open = TRUE,
                                    !.wroteConnect = TRUE,
                                    !.armed = "on_connected"]
    /\ OthersUnchanged

\* READ readiness: recv returns k bytes that leave the header unfinished
RemoteRecvPart(k, op) ==
    /\ remote.open /\ remote.armed # "none"
    /\ Len(remote.headers) < MaxHeaders
    /\ remote.part + k < 4
    /\ remote.part > 0 => op = remote.partOp
    /\ remote' = [RemoteStep EXCEPT !.part = @ + k, !.partOp = op]
    /\ OthersUnchanged

\* READ readiness: recv returns the rest of a header, and the headers in
\* more that came with it; the pending read is completed
RemoteRecvWhole(op, more) ==
    /\ remote.open /\ remote.armed # "none"
    /\ Len(remote.headers) + 1 + Len(more) <= MaxHeaders
    /\ remote.part > 0 => op = remote.partOp
    /\ remote' = RemoteGuarded(
                     RemoteCallback([RemoteStep EXCEPT !.part = 0, !.partOp = 0,
                                                       !.armed = "none",
                                                       !.buf = <<op>> \o more],
                                    remote.armed))
    /\ OthersUnchanged

\* ERROR readiness or end of file: the stream closes
RemoteHangup ==
    /\ remote.open
    /\ remote' = RemoteClose(RemoteStep)
    /\ OthersUnchanged

InitRemote == remote = NoRemote

NextRemote ==
    \/ RemoteConnect
    \/ \E k \in 1..3, op \in HeaderOps : RemoteRecvPart(k, op)
    \/ \E op \in HeaderOps, more \in {<<>>} \cup {<<o>> : o \in HeaderOps} :
           RemoteRecvWhole(op, more)
    \/ RemoteHangup

---------------------------------------------------------------------------
(* The reads of one server Connection, byte by byte.  The peer's frames    *)
(* are bytes on the wire: a header of HeaderLen bytes, the first of which  *)
(* carries the frame's fields, then the qid and the body.  recv hands the  *)
(* stream any number of the bytes in transit, so a frame may come in       *)
(* pieces or several at once.  A callback is a record: the function, and   *)
(* what its closure holds.  reader.calls is every read_bytes call made so  *)
(* far: its callback, its length, whether a read was pending when it was   *)
(* made, and whether the buffer served it at once.                         *)

\* self._stream.read_bytes(4, self._on_header)
HeaderLen == 4

WireFrames ==
    {[op |-> o, x |-> 0, ql |-> 0, ml |-> 0] : o \in {"CONNECT", "DISCONNECT"}}
        \cup {[op |-> o, x |-> 0, ql |-> q, ml |-> m] :
                 o \in {"SUBSCRIBE", "UNSUBSCRIBE"}, q \in {0, 1}, m \in {0, 1}}
        \cup {[op |-> "SEND", x |-> x, ql |-> q, ml |-> m] :
                 x \in {0, 1}, q \in {0, 1}, m \in {0, 1}}

NoWireFrame == [op |-> "none", x |-> 0, ql |-> 0, ml |-> 0]

Byte(k, f) == [k |-> k, f |-> f]

\* the bytes of frame f: struct.pack('!I', header), qid, message
WireBytes(f) ==
    <<Byte("header", f)>>
        \o [i \in 1..(HeaderLen - 1) |-> Byte("header", NoWireFrame)]
        \o [i \in 1..f.ql |-> Byte("qid", NoWireFrame)]
        \o [i \in 1..f.ml |-> Byte("message", NoWireFrame)]

\* the qid string that n qid bytes spell
QidOf(data) == [i \in 1..Len(data) |-> "a"]

Cb(f, x, ml, qid) == [f |-> f, x |-> x, ml |-> ml, qid |-> qid]

\* self._read_callback = None
NoCb == Cb("none", 0, 0, <<>>)

OnHeaderCb == Cb("_on_header", 0, 0, <<>>)

KeepPending(r) == r

\* _handle_read takes the pending read off the stream before it runs the
\* callback
ClearPending(r) == [r EXCEPT !.read_bytes = None, !.read_callback = NoCb]

\* IOStream.close with Connection._on_close as the close callback; the
\* pending read stays as it is
ReaderClose(r) ==
    IF ~r.open
    THEN r
    ELSE LET d == ClientDisconnect(r.clients, r.subscribers, r.connected,
                                   r.hasExchange, Conn)
         IN [r EXCEPT !.open = FALSE, !.readMask = FALSE,
                      !.clients = d.clients, !.subscribers = d.subscribers,
                      !.connected = d.connected,
                      !.hasExchange = d.hasExchange,
                      !.raised = IF d.raised # "none" THEN d.raised ELSE @]

\* except IOError: self._stream.close()
CatchIOError(r0) ==
    CHOOSE res \in
        {IF r.raised = "IOError"
         THEN ReaderClose([r EXCEPT !.raised = "none"])
         ELSE r : r \in {r0}} : TRUE

\* the exchange call of a callback, then its tables in the reader's record
WithEffect(r, e) ==
    [r EXCEPT !.clients = e.clients, !.subscribers = e.subscribers,
              !.connected = e.connected, !.hasExchange = e.hasExchange,
              !.raised = e.raised]

\* a callback returns
Return(r) == [r |-> r, next |-> "return", n |-> 0, cb |-> NoCb, catch |-> FALSE]

\* a callback ends with self._stream.read_bytes(n, cb), inside a
\* try / except IOError or not
Read(r, n, cb, catch) ==
    [r |-> r, next |-> "read_bytes", n |-> n, cb |-> cb, catch |-> catch]

\* on_qid(qid) of a SEND frame with flag x and message_length ml
OnQid(r, x, ml, qid) ==
    IF ml > 0
    THEN Read(r, ml, Cb("_send", x, ml, qid), TRUE)
    ELSE Return([r EXCEPT !.deferred = Append(@, Cb("_send", x, 0, qid))])

\* Connection._on_header on the header that carries frame f
OnHeaderOf(r, f) ==
    CASE f.op = "CONNECT" ->
            IF ~r.open
            THEN Return(ReaderClose(r))
            ELSE LET r1 == WithEffect(r, ClientConnect(r.clients, r.subscribers,
                                              r.connected, r.hasExchange, Conn))
                 IN IF r1.raised # "none"
                    THEN Return(r1)
                    ELSE Read(r1, HeaderLen, OnHeaderCb, TRUE)
      [] f.op = "DISCONNECT" -> Return(ReaderClose(r))
      [] f.op = "SUBSCRIBE" ->
            IF f.ml # 0
            THEN Return([r EXCEPT !.raised = "AssertionError"])
            ELSE Read(r, f.ql, Cb("subscribe", f.x, 0, <<>>), TRUE)
      [] f.op = "UNSUBSCRIBE" ->
            IF f.ml # 0
            THEN Return([r EXCEPT !.raised = "AssertionError"])
            ELSE Read(r, f.ql, Cb("unsubscribe", f.x, 0, <<>>), TRUE)
      [] f.op = "SEND" ->
            IF f.ql > 0
            THEN Read(r, f.ql, Cb("on_qid", f.x, f.ml, <<>>), TRUE)
            ELSE OnQid(r, f.x, f.ml, <<>>)

\* subscribe(qid) and unsubscribe(qid) of _on_header
OnSubscription(r, cb, qid) ==
    LET key == IF cb.x = 1 THEN Pat(qid) ELSE Lit(qid)
        r1 == WithEffect(r,
                  IF cb.f = "subscribe"
                  THEN ClientSubscribe(r.clients, r.subscribers, r.connected,
                                       r.hasExchange, key, Conn)
                  ELSE ClientUnsubscribe(r.clients, r.subscribers, r.connected,
                                         r.hasExchange, key, Conn))
    IN IF r1.raised # "none"
       THEN Return(r1)
       ELSE Read(r1, HeaderLen, OnHeaderCb, FALSE)

\* _send(qid, message) of _on_header
OnSend(r, cb) ==
    LET x == SendRaised(r, [x |-> cb.x, qid |-> cb.qid])
    IN IF x # "none"
       THEN Return([r EXCEPT !.raised = x])
       ELSE Return([r EXCEPT !.deferred = Append(@, Cb("on_header", 0, 0, <<>>))])

\* the callback cb of the connection, called with data, up to the read_bytes
\* call it ends with
CallbackStep(r, cb, data) ==
    CASE cb.f = "none" -> Return([r EXCEPT !.raised = "TypeError"])
      [] cb.f = "_on_header" -> OnHeaderOf(r, data[1].f)
      [] cb.f \in {"subscribe", "unsubscribe"} -> OnSubscription(r, cb, QidOf(data))
      [] cb.f = "on_qid" -> OnQid(r, cb.x, cb.ml, QidOf(data))
      [] cb.f = "_send" -> OnSend(r, cb)
      [] cb.f = "on_header" -> Read(r, HeaderLen, OnHeaderCb, TRUE)

RECURSIVE ReaderReadBytes(_, _, _), ReaderCall(_, _, _)

\* IOStream.read_bytes(n, cb).  _consume(n) starts with popleft(), which
\* raises on an empty buffer.
ReaderReadBytes(r0, n, cb) ==
    CHOOSE res \in
        {LET r1 == [r EXCEPT !.calls = @ \cup
                        {[cb |-> cb.f, n |-> n,
                          pending |-> r.read_callback # NoCb,
                          fast |-> Len(r.buf) >= n]}]
         IN IF r.read_callback # NoCb
            THEN [r1 EXCEPT !.raised = "Already reading"]
            ELSE IF Len(r.buf) >= n
            THEN IF r.buf = <<>>
                 THEN [r1 EXCEPT !.raised = "IndexError"]
                 ELSE ReaderCall([r1 EXCEPT !.buf = Drop(@, n)], cb,
                                 SubSeq(r.buf, 1, n))
            ELSE IF ~r.open
            THEN [r1 EXCEPT !.raised = "IOError"]
            ELSE [r1 EXCEPT !.read_bytes = n, !.read_callback = cb,
                            !.readMask = TRUE] : r \in {r0}} : TRUE

\* the callback cb of the connection, called with data
ReaderCall(r0, cb, data) ==
    CHOOSE res \in
        UNION {IF step.next = "return"
               THEN {step.r}
               ELSE {IF step.catch THEN CatchIOError(r) ELSE r :
                        r \in {ReaderReadBytes(step.r, step.n, step.cb)}} :
                  step \in {CallbackStep(r0, cb, data)}} : TRUE

\* IOStream._run_callback around a callback of the connection
ReaderRunCallback(r0) ==
    CHOOSE res \in {IF r.raised # "none" THEN ReaderClose(r) ELSE r : r \in {r0}} :
        TRUE

\* IOStream._handle_read after recv gave n bytes.  With no read pending
\* _read_bytes is None, which every size is >= to.
ReaderHandleRead(r0, n) ==
    LET r == [r0 EXCEPT !.buf = @ \o SubSeq(r0.wire, 1, n),
                        !.wire = Drop(@, n)]
    IN IF Len(r0.buf) >= DefaultMaxBufferSize \/ n = 0
       THEN r0
       ELSE IF Len(r.buf) >= DefaultMaxBufferSize
       THEN ReaderClose(r)
       ELSE IF r.read_bytes = None \/ Len(r.buf) >= r.read_bytes
       THEN LET num_bytes == IF r.read_bytes = None THEN 0 ELSE r.read_bytes
            IN ReaderRunCallback(
                   ReaderCall([ClearPending(r) EXCEPT !.buf = Drop(@, num_bytes)],
                              r.read_callback, SubSeq(r.buf, 1, num_bytes)))
       ELSE r

\* the tail of IOStream._handle_events: READ is kept while _read_bytes is set
ReaderRecompute(r) ==
    [r EXCEPT !.readMask = r.read_bytes # None /\ r.read_bytes # 0]

\* IOStream._handle_events for READ, recv giving n bytes (none: EAGAIN)
ReaderHandleEvents(r, n) ==
    CHOOSE res \in
        {IF ~r1.open \/ r1.raised # "none" THEN r1 ELSE ReaderRecompute(r1) :
            r1 \in {ReaderHandleRead(r, n)}} : TRUE

\* the reader together with the exchange tables it acts on
ReaderNow ==
    [open |-> reader.open, buf |-> reader.buf, wire |-> reader.wire,
     read_bytes |-> reader.read_bytes, read_callback |-> reader.read_callback,
     readMask |-> reader.readMask, deferred |-> reader.deferred,
     calls |-> reader.calls, sent |-> reader.sent, raised |-> "none",
     clients |-> clients, subscribers |-> subscribers, connected |-> connected,
     hasExchange |-> hasExchange]

ReaderLand(r) ==
    /\ reader' = [open |-> r.open, buf |-> r.buf, wire |-> r.wire,
                  read_bytes |-> r.read_bytes, read_callback |-> r.read_callback,
                  readMask |-> r.readMask, deferred |-> r.deferred,
                  calls |-> r.calls, sent |-> r.sent, raised |-> r.raised]
    /\ clients' = r.clients
    /\ subscribers' = r.subscribers
    /\ connected' = r.connected
    /\ hasExchange' = r.hasExchange
    /\ UNCHANGED <<connState, last, egressVars, streamVars, conn, frame, remote>>

\* the peer writes frame f to its socket
PeerSend(f) ==
    /\ reader.open
    /\ reader.sent < MaxWireFrames
    /\ \E r \in {[ReaderNow EXCEPT !.wire = @ \o WireBytes(f), !.sent = @ + 1]} :
           ReaderLand(r)

\* the event loop reports READ and recv gives n of the bytes in transit
ReaderRecv(n) ==
    /\ reader.open
    /\ reader.readMask
    /\ n <= Len(reader.wire)
    /\ \E r \in {ReaderHandleEvents(ReaderNow, n)} : ReaderLand(r)

\* the event loop runs the callback at the head of its queue
ReaderCallback ==
    /\ reader.deferred # <<>>
    /\ \E r \in {ReaderCall([ReaderNow EXCEPT !.deferred = Tail(@)],
                            Head(reader.deferred), <<>>)} :
           ReaderLand(r)

\* the event loop reports ERROR for the socket: _handle_events closes
ReaderHangup ==
    /\ reader.open
    /\ \E r \in {ReaderClose(ReaderNow)} : ReaderLand(r)

\* Connection.__init__ on a new stream: the first header read is pending
InitReader ==
    reader = [open |-> TRUE, buf |-> <<>>, wire |-> <<>>,
              read_bytes |-> HeaderLen, read_callback |-> OnHeaderCb,
              readMask |-> TRUE, deferred |-> <<>>,
              calls |-> {[cb |-> "_on_header", n |-> HeaderLen,
                          pending |-> FALSE, fast |-> FALSE]},
              sent |-> 0, raised |-> "none"]

NextReads ==
    \/ \E f \in WireFrames : PeerSend(f)
    \/ \E n \in 0..(MaxWireFrames * (HeaderLen + 2)) : ReaderRecv(n)
    \/ ReaderCallback
    \/ ReaderHangup

Init ==
    /\ InitExchange /\ InitEgress /\ InitStream /\ InitIngress /\ InitFrame
    /\ InitRemote /\ InitReader

\* every message drawn
InitFrames ==
    /\ InitExchange /\ InitEgress /\ InitStream /\ InitIngress /\ InitRemote
    /\ InitReader
    /\ frame \in FrameInputs

Next ==
    \/ \E c \in Clients : Connect(c)
    \/ \E c \in Clients, k \in Keys : Subscribe(c, k)
    \/ \E c \in Clients, k \in Keys : Unsubscribe(c, k)
    \/ \E c \in Clients : Disconnect(c)
    \/ \E c \in Clients : OnClose(c)
    \/ \E c \in Clients, q \in Targets, m \in Msgs, mc \in BOOLEAN :
           SendIgnored(c, q, m, mc)
    \/ \E c \in Clients, q \in Targets, m \in Msgs : SendMulticast(c, q, m)
    \/ \E c \in Clients, q \in Targets, m \in Msgs : SendUnicast(c, q, m)

Spec == Init /\ [][Next]_vars

SpecEgress == Init /\ [][NextEgress]_vars

SpecStream == Init /\ [][NextStream]_vars

SpecIngress == Init /\ [][NextIngress]_vars

SpecFrame == InitFrames /\ [][NextFrame]_vars

SpecRemote == Init /\ [][NextRemote]_vars

SpecReads == Init /\ [][NextReads]_vars

---------------------------------------------------------------------------
(* Claims about the Exchange, checked under Spec *)

Subscribed(c, k) == c \in Get(subscribers, k)

Listed(c, k) == c \in DOMAIN clients /\ InList(clients[c], k)

\* the recipients the routing rule names for a target literal q
Recipients(q) ==
    {c \in Clients :
        \E k \in DOMAIN subscribers :
            /\ c \in subscribers[k]
            /\ \/ k = Lit(q)
               \/ k.pat /\ PatternMatch(k.s, q)}

\* C1: the by-qid map and the by-client map agree: client c is in the
\* subscriber set of qid k if and only if k occurs in c's qid list.
C1_MapsAgree == \A c \in Clients, k \in Keys : Subscribed(c, k) <=> Listed(c, k)

\* C2: once disconnect(c) has returned, c is absent from the by-client map and
\* is a member of no qid's subscriber set.
C2_DisconnectRemovesAll ==
    (last.op = "disconnect" /\ last.raised = "none") =>
        /\ last.client \notin DOMAIN clients
        /\ \A k \in DOMAIN subscribers : last.client \notin subscribers[k]

\* C3: duplicate subscriptions are independent entries: an unsubscribe(k) by c
\* that leaves another entry of k in c's list has succeeded and leaves c
\* subscribed to k, and an unsubscribe of an entry that is there never fails.
C3_DuplicatesIndependent ==
    (/\ last.op = "unsubscribe"
     /\ Listed(last.client, last.qid)) =>
        /\ last.raised = "none"
        /\ Subscribed(last.client, last.qid)

\* C4: a multicast dispatch(q, m) invokes on_message(q, m) exactly once on
\* every client subscribed through a key that equals q or is a pattern
\* matching q, and on no other client.
C4_MulticastRecipients ==
    (last.op = "send" /\ last.multicast) =>
        /\ last.raised = "none"
        /\ \A c \in Clients :
               last.calls[c] = IF c \in Recipients(last.qid.s)
                               THEN <<<<last.qid.s, last.msg>>>>
                               ELSE <<>>

\* a multicast reached two clients, one of them through two matching keys
C4_Witness ==
    /\ last.op = "send" /\ last.multicast
    /\ last.qid.s = <<"a">>
    /\ Subscribed("k1", Lit(<<"a">>)) /\ Subscribed("k1", Pat(<<"a">>))
    /\ Subscribed("a1", Pat(<<"a">>)) /\ ~Subscribed("a1", Lit(<<"a">>))
    /\ Len(last.calls["k1"]) = 1 /\ Len(last.calls["a1"]) = 1

\* C5: a unicast dispatch(q, m) whose matching set is non-empty invokes
\* on_message(q, m) on exactly one client, a member of the matching set, and
\* every member of the matching set can be the one chosen.
C5_UnicastOne ==
    /\ (last.op = "send" /\ ~last.multicast /\ Recipients(last.qid.s) # {}) =>
           /\ last.raised = "none"
           /\ \E t \in Recipients(last.qid.s) :
                  \A c \in Clients :
                      last.calls[c] = IF c = t
                                      THEN <<<<last.qid.s, last.msg>>>>
                                      ELSE <<>>
    /\ \A c \in Clients, q \in Targets, m \in Msgs :
           (MayAct(c) /\ connected[c]) =>
               \A t \in Recipients(q) :
                   ENABLED (SendUnicast(c, q, m) /\ last'.calls[t] # <<>>)

\* a unicast with two matching clients was delivered to the connection
C5_Witness ==
    /\ last.op = "send" /\ ~last.multicast
    /\ Recipients(last.qid.s) = {"a1", "k1"}
    /\ last.calls["k1"] # <<>>

\* C6: a unicast dispatch with no matching subscriber is silently dropped: it
\* returns without raising and no on_message is invoked.
C6_UnicastEmptyDropped ==
    (last.op = "send" /\ ~last.multicast /\ Recipients(last.qid.s) = {}) =>
        /\ last.raised = "none"
        /\ last.calls = NoCalls

---------------------------------------------------------------------------
(* Claims about the egress scheduler, checked under SpecEgress *)

InFq(qid) == \E i \in 1..Len(fq) : fq[i].qid = qid

FqCount(qid) == Cardinality({i \in 1..Len(fq) : fq[i].qid = qid})

BeingWritten(qid) == \E i \in 1..Len(inflight) : inflight[i].qid = qid

MqNonEmpty(qid) == qid \in DOMAIN mq /\ dq[mq[qid]] # <<>>

\* C7: per-qid FIFO on egress: the MESSAGE frames of one qid are written to
\* the stream in the order in which on_message was called for that qid.
C7_PerQidFifo ==
    \A i, j \in 1..Len(out) :
        (i < j /\ out[i].qid = out[j].qid) => out[i].msg < out[j].msg

\* C8: fair interleave: every window of 4 consecutive outbound frames, each
\* picked while both qids had pending messages, holds a frame of each qid.
C8_FairWindow ==
    \A i \in 1..(Len(out) - 3) :
        (\A j \in i..(i + 3) : out[j].both) =>
            \A qid \in EgressQids : \E j \in i..(i + 3) : out[j].qid = qid

\* C9: each qid appears in fq at most once, and it appears in fq exactly when
\* mq[qid] is non-empty and no frame of that qid is being written.
C9_FairQueueInvariant ==
    \A qid \in EgressQids :
        /\ FqCount(qid) <= 1
        /\ InFq(qid) <=> (MqNonEmpty(qid) /\ ~BeingWritten(qid))

\* C22: recving is true while a MESSAGE frame written by the sender has not
\* completed, and at most one MESSAGE frame is in flight.
C22_OneFrameInFlight ==
    /\ inflight # <<>> => recving
    /\ Len(inflight) <= 1

\* messages taken by on_message that wait in mq
Pending == \E qid \in DOMAIN mq : dq[mq[qid]] # <<>>

\* C23: the connection never holds messages pending in mq while no sender
\* run is scheduled and no completion is outstanding.
C23_NoStall == ~(Pending /\ recvScheduled = 0 /\ inflight = <<>>)

\* C24: whenever the sender _recv runs, fq is non-empty and the queue it
\* pops from fq holds a message: neither the assertion nor q.pop() fails.
C24_SenderFindsWork == egressErr \notin {"AssertionError", "IndexError"}

\* C19: local Client misuse fails loudly: subscribe, unsubscribe, send or
\* disconnect on a Client that is not connected raises, connect on a
\* connected Client raises, and the exchange's tables stay as they were.
C19_MisuseFailsLoudly ==
    [][ \A c \in LocalClients :
          last'.client = c =>
              /\ ( /\ last'.op \in {"subscribe", "unsubscribe", "send",
                                    "send_ignored", "disconnect"}
                   /\ ~connected[c] )
                     => /\ last'.raised # "none"
                        /\ clients' = clients
                        /\ subscribers' = subscribers
              /\ (last'.op = "connect" /\ connected[c])
                     => /\ last'.raised # "none"
                        /\ clients' = clients
                        /\ subscribers' = subscribers ]_vars

---------------------------------------------------------------------------
(* Claims about the IOStream, checked under SpecStream *)

\* C10: whatever closes the stream (close() calls, peer EOF, read and write
\* errors, ERROR readiness, raising callbacks), the socket is deregistered and
\* closed once and the close callback registered by then is invoked exactly
\* once; a later close() changes nothing.
C10_CloseOnce ==
    /\ stream.removeHandlerCalls <= 1
    /\ stream.socketCloseCalls <= 1
    /\ stream.closeCallbackRuns <= 1
    /\ stream.socket = "open" =>
           /\ stream.removeHandlerCalls = 0
           /\ stream.socketCloseCalls = 0
           /\ stream.closeCallbackRuns = 0
    /\ stream.socket = "none" =>
           /\ stream.removeHandlerCalls = 1
           /\ stream.socketCloseCalls = 1
           /\ stream.registered = {}
           /\ stream.closeCallbackRuns = IF stream.cbAtClose # "none" THEN 1 ELSE 0

\* a read callback raised on delivery, which closed the stream, and the close
\* callback raised in turn
C10_Witness ==
    /\ stream.socket = "none"
    /\ stream.delivered # <<>>
    /\ stream.raised = "Exception"
    /\ stream.cbAtClose = "raises"
    /\ stream.closeCallbackRuns = 1

RECURSIVE SumLen(_)
SumLen(chunks) ==
    IF chunks = <<>> THEN 0 ELSE Len(Head(chunks)) + SumLen(Tail(chunks))

\* C11: bounded read buffer: while the stream is open and no handler runs,
\* read_buffer_size is at most max_buffer_size and equals the total length
\* of the chunks held in the read buffer; a stream whose buffered total has
\* reached the cap is closed.
C11_BoundedReadBuffer ==
    stream.socket = "open" =>
        /\ stream.read_buffer_size <= stream.max_buffer_size
        /\ stream.read_buffer_size = SumLen(stream.read_buffer)
        /\ SumLen(stream.read_buffer) < stream.max_buffer_size

\* an open stream that has delivered a read and holds the surplus
C11_Witness ==
    /\ stream.socket = "open"
    /\ stream.delivered # <<>>
    /\ stream.read_buffer # <<>>
    /\ stream.read_buffer_size > 0

\* a recv took the buffered total to the cap and the stream closed
C11_WitnessOverflow ==
    /\ stream.socket = "none"
    /\ SumLen(stream.read_buffer) >= stream.max_buffer_size

\* bytes the peer has sent that socket.recv has not yet returned
PeerUnread == MaxIn - stream.received

\* the event loop reports READ and socket.recv returns data
ReadReady ==
    \E n \in 1..ReadChunkSize :
        StreamHandleEvents({READ}, [kind |-> "data", n |-> n], [kind |-> "eagain"])

\* C12: buffer cap enforcement: while the peer has sent more than the stream
\* may buffer and no read_bytes request is pending, the open stream goes on
\* taking the input, which is what ends with the stream closed and the close
\* callback run.
C12_CapEnforced ==
    ( /\ stream.socket = "open"
      /\ stream.close_callback # "none"
      /\ stream.read_callback = "none"
      /\ stream.read_buffer_size + PeerUnread > stream.max_buffer_size )
        => ENABLED ReadReady

RECURSIVE SumData(_)
SumData(entries) ==
    IF entries = <<>> THEN 0
    ELSE Len(Head(entries).data) + SumData(Tail(entries))

\* C14: write path integrity: the bytes the socket accepted are the bytes
\* given to write() in call order, write_buffer_size is the number of unsent
\* bytes held in the write buffer, every byte given to an open stream is
\* either sent or still held, and a write whose completion has run holds no
\* unsent bytes.
C14_WritePathIntegrity ==
    /\ stream.sent = Range(0, Len(stream.sent))
    /\ stream.write_buffer_size = SumData(stream.write_buffer)
    /\ stream.socket = "open" =>
           Len(stream.sent) + SumData(stream.write_buffer) = stream.written
    /\ \A i \in 1..Len(stream.completed) :
           \A j \in 1..Len(stream.write_buffer) :
               stream.write_buffer[j].id # stream.completed[i]

\* C17: callback safety: when a completion given to read_bytes, write or
\* set_close_callback raises, the stream is closed by the time the exception
\* leaves the stream, whether a readiness handler ran the completion or
\* read_bytes ran it at once on buffered bytes.
C17_CallbackSafety ==
    stream.raised = "Exception" => stream.socket = "none"

\* C21: while the stream is open and no handler is running, ERROR is armed,
\* READ is armed exactly when a read is pending, and WRITE is armed exactly
\* when the write buffer holds an entry
C21_InterestMask ==
    stream.socket # "none" =>
        /\ ERROR \in stream.registered
        /\ READ \in stream.registered <=> stream.read_callback # "none"
        /\ WRITE \in stream.registered <=> stream.write_buffer # <<>>

---------------------------------------------------------------------------
(* Claims about the inbound side of a server Connection, checked under     *)
(* SpecIngress                                                             *)

BeforeConnect(i) ==
    \A j \in 1..(i - 1) : conn.handled[j].frame.op # "CONNECT"

\* C15: a SUBSCRIBE, UNSUBSCRIBE or SEND frame received before the CONNECT
\* frame is a protocol violation: the stream is closed and the frame has no
\* effect on the exchange.
C15_FrameBeforeConnectCloses ==
    \A i \in 1..Len(conn.handled) :
        ( /\ conn.handled[i].frame.op \in {"SUBSCRIBE", "UNSUBSCRIBE", "SEND"}
          /\ BeforeConnect(i) )
            => /\ ~conn.open
               /\ ~conn.handled[i].changed

\* C16: a SUBSCRIBE or UNSUBSCRIBE frame with message_length # 0 closes the
\* stream, wherever the frame stands in the inbound bytes, and leaves the
\* subscription table as it was.
C16_PayloadOnSubscribeCloses ==
    \A i \in 1..Len(conn.handled) :
        ( /\ conn.handled[i].frame.op \in {"SUBSCRIBE", "UNSUBSCRIBE"}
          /\ conn.handled[i].frame.mlen # 0 )
            => /\ ~conn.open
               /\ ~conn.handled[i].changed

---------------------------------------------------------------------------
(* Claims about frame headers, checked under SpecFrame *)

\* C18: frame well-formedness: the header of every frame put on the stream
\* without an assertion failing decodes to the op, the flag, len(qid) and
\* len(message) of the frame.
C18_HeaderRoundTrip ==
    frame.wire # <<>> =>
        Decode(frame.wire[1].header) =
            [op |-> frame.wire[1].op, flag |-> frame.wire[1].flag,
             qid_length |-> frame.qid_length,
             message_length |-> frame.message_length]

---------------------------------------------------------------------------
(* Claims about the remote client, checked under SpecRemote *)

---------------------------------------------------------------------------
(* Claims about the reads of a server Connection, checked under SpecReads  *)

\* C25: at most one read is in flight per stream: the connection never calls
\* read_bytes while a read is pending, so 'Already reading' is never raised.
C25_OneReadInFlight ==
    /\ \A c \in reader.calls : ~c.pending
    /\ reader.raised # "Already reading"

\* a SEND frame came in pieces, so that a read of a qid and a read of a body
\* were pending ones, a header read was served from the buffer at once, and
\* the stream is open
C25_Witness ==
    /\ reader.open
    /\ \E c \in reader.calls : c.cb = "on_qid" /\ ~c.fast
    /\ \E c \in reader.calls : c.cb = "_send" /\ ~c.fast
    /\ \E c \in reader.calls : c.cb = "_on_header" /\ c.fast

=============================================================================
